---- MODULE Spec2Model ----
(***************************************************************************)
(* A model of the two scripts of the repository:                           *)
(*   src/fix_welcome.py     reads src/session.ts, replaces the welcome     *)
(*                          banner `old` by `new`, writes the file back;   *)
(*   src/create_chunlian.py assembles a couplet document with python-docx  *)
(*                          and saves it in the working directory.         *)
(* The scripts do not interact; each has its own specification             *)
(* (SpecWelcome, SpecChunlian) over the module's variables.                *)
(***************************************************************************)
EXTENDS Integers, Sequences, FiniteSets, TLC

VARIABLES
    \* ---- fix_welcome.py ----
    pc,         \* the statement fix_welcome.py is about to execute
    content,    \* the script's variable `content`
    session,    \* the file src/session.ts: [mode, data]
    rf,         \* the handle `f` of the read block: "none" | "open" | "closed"
    wf,         \* the handle `f` of the write block: "none" | "open" | "closed"
    stdout,     \* the lines printed by the current run
    exc,        \* the exception that ended the run, "none" when none
    wopens,     \* how many times the current run opened the file for writing
    orig,       \* history: the file's data when the current run started
    runs,       \* history: the number of the current run (1, 2, ...)
    log,        \* history: one record [before, after, out] per completed run
    \* ---- create_chunlian.py ----
    pc1,        \* the statement create_chunlian.py is about to execute
    doc,        \* the python-docx Document being assembled
    cwd,        \* the working directory: file name -> file
    stdout1,    \* the lines printed by create_chunlian.py
    exc1,       \* the exception that ended the run, "none" when none
    saves,      \* how many times doc.save completed
    env         \* what the script is started with: argv, environ, the
                \* installed packages, the directory's permissions, and the
                \* directory as it was at the start

varsWelcome == <<pc, content, session, rf, wf, stdout, exc, wopens, orig, runs, log>>
varsChunlian == <<pc1, doc, cwd, stdout1, exc1, saves, env>>
vars == <<varsWelcome, varsChunlian>>

(***************************************************************************)
(* Bounds of the model.                                                    *)
(***************************************************************************)
\* the initial src/session.ts is a concatenation of at most MaxChunks chunks
MaxChunks == 3
\* the script is run at most MaxRuns times in a row on the same file
MaxRuns == 2

(***************************************************************************)
(* fix_welcome.py: the strings.                                            *)
(*                                                                         *)
(* A text is a sequence of tokens.  A token is one source line of the      *)
(* banner (without its line break), the line break NL, or a character "x"  *)
(* that occurs in neither `old` nor `new`.  `old` and `new` are the nine   *)
(* lines of the literals joined by NL: they start and end with the same    *)
(* line E and have no line break before the first or after the last line.  *)
(*   E       `    console.log('');`                                         *)
(*   TOP     the gradient line with the box's top edge                     *)
(*   BAR56   the gradient bar line with ' '.repeat(56)   (old, twice)      *)
(*   TITLE12 the 'XAGENT CLI' line with ' '.repeat(12)   (old)             *)
(*   VER14   the 'v1.0.0' line with ' '.repeat(14)       (old)             *)
(*   BAR58   the gradient bar line with ' '.repeat(58)   (new, twice)      *)
(*   TITLE14 the 'XAGENT CLI' line with ' '.repeat(14)   (new)             *)
(*   VER17   the 'v1.0.0' line with ' '.repeat(17)       (new)             *)
(*   BOT     the gradient line with the box's bottom edge                  *)
(*   TAG     the 'AI-powered command-line assistant' line                  *)
(***************************************************************************)
E == "console.log('');"
NL == "\\n"

old ==
    << E, NL, "TOP", NL, "BAR56", NL, "TITLE12", NL, "VER14", NL, "BAR56", NL,
       "BOT", NL, "TAG", NL, E >>

new ==
    << E, NL, "TOP", NL, "BAR58", NL, "TITLE14", NL, "VER17", NL, "BAR58", NL,
       "BOT", NL, "TAG", NL, E >>

(***************************************************************************)
(* Python's str operations, as the script uses them.                       *)
(***************************************************************************)
\* s[i .. i+len(p)-1] == p
OccursAt(s, p, i) ==
    /\ i >= 1
    /\ i + Len(p) - 1 <= Len(s)
    /\ \A k \in 1..Len(p) : s[i + k - 1] = p[k]

\* s.find(p, i): the least index >= i where p occurs, 0 when there is none
\* (Python's -1; indices are 1-based here)
Find(s, p, i) ==
    LET hits == { j \in i..Len(s) : OccursAt(s, p, j) }
    IN  IF hits = {} THEN 0 ELSE CHOOSE j \in hits : \A h \in hits : j <= h

\* `p in s`
Contains(s, p) == Find(s, p, 1) # 0

RECURSIVE ReplaceFrom(_, _, _, _)
\* the part of s.replace(o, n) produced from s[i..]: the scan finds the next
\* occurrence at or after i, copies the text before it, emits n and goes on
\* after the occurrence
ReplaceFrom(s, o, n, i) ==
    LET j == Find(s, o, i)
    IN  IF j = 0
        THEN SubSeq(s, i, Len(s))
        ELSE SubSeq(s, i, j - 1) \o n \o ReplaceFrom(s, o, n, j + Len(o))

\* variant: s.replace(o, n, 1), which replaces the first occurrence only
StrReplaceFirst(s, o, n) ==
    LET j == Find(s, o, 1)
    IN  IF j = 0 THEN s
        ELSE SubSeq(s, 1, j - 1) \o n \o SubSeq(s, j + Len(o), Len(s))

\* s.replace(o, n) with no count: every occurrence found by the scan
StrReplace(s, o, n) == ReplaceFrom(s, o, n, 1)

\* the exit status of the interpreter: 1 after an unhandled exception
ExitStatus(e) == IF e = "none" THEN 0 ELSE 1

(***************************************************************************)
(* fix_welcome.py: the initial states.                                     *)
(***************************************************************************)
\* the pieces the initial file is made of
OldRest == SubSeq(old, 2, Len(old))     \* `old` without its first line E
Chunks == { old, new, OldRest, <<E>>, <<NL>>, <<"x">> }

RECURSIVE Flatten(_)
Flatten(ss) == IF ss = <<>> THEN <<>> ELSE Head(ss) \o Flatten(Tail(ss))

Texts == { Flatten(cs) : cs \in UNION { [1..n -> Chunks] : n \in 0..MaxChunks } }

\* src/session.ts: absent, or present with some text and some permissions
\*   "rw"         can be opened for reading and for writing
\*   "ro"         can be opened for reading only
\*   "unreadable" cannot be opened for reading (or is not UTF-8)
Files ==
    { [mode |-> "absent", data |-> <<>>] } \cup
    { [mode |-> m, data |-> t] : m \in {"rw", "ro", "unreadable"}, t \in Texts }

\* create_chunlian.py before it starts (used while fix_welcome.py runs)
NoSection == [page_height |-> 0, page_width |-> 0, top_margin |-> 0,
              bottom_margin |-> 0, left_margin |-> 0, right_margin |-> 0]
NoDoc == [created |-> FALSE, section |-> NoSection, paragraphs |-> <<>>]
AbsentFile == [exists |-> FALSE, section |-> NoSection, paragraphs |-> <<>>]

InitWelcome ==
    /\ pc = "open_r"
    /\ content = <<>>
    /\ session \in Files
    /\ rf = "none"
    /\ wf = "none"
    /\ stdout = <<>>
    /\ exc = "none"
    /\ wopens = 0
    /\ orig = session.data
    /\ runs = 1
    /\ log = <<>>

(***************************************************************************)
(* fix_welcome.py: one action per statement.                               *)
(***************************************************************************)
\* line 3: open('src/session.ts', 'r', encoding='utf-8')
OpenRead ==
    /\ pc = "open_r"
    /\ IF session.mode \in {"rw", "ro"}
       THEN /\ rf' = "open"
            /\ pc' = "read"
            /\ exc' = exc
       ELSE /\ rf' = rf
            /\ pc' = "fault"
            /\ exc' = IF session.mode = "absent" THEN "FileNotFoundError"
                      ELSE "PermissionError"
    /\ UNCHANGED <<content, session, wf, stdout, wopens, orig, runs, log>>
    /\ UNCHANGED varsChunlian

\* line 4: content = f.read()
ReadAll ==
    /\ pc = "read"
    /\ content' = session.data
    /\ pc' = "close_r"
    /\ UNCHANGED <<session, rf, wf, stdout, exc, wopens, orig, runs, log>>
    /\ UNCHANGED varsChunlian

\* variant: the read handle is left open (no with block)
CloseReadLeak ==
    /\ pc = "close_r"
    /\ pc' = "test"
    /\ UNCHANGED <<content, session, rf, wf, stdout, exc, wopens, orig, runs, log>>
    /\ UNCHANGED varsChunlian

\* lines 3-4: the with block ends and closes f
CloseRead ==
    /\ pc = "close_r"
    /\ rf' = "closed"
    /\ pc' = "test"
    /\ UNCHANGED <<content, session, wf, stdout, exc, wopens, orig, runs, log>>
    /\ UNCHANGED varsChunlian

\* variant: the membership test is dropped and the found branch always taken
TestFoundAlways ==
    /\ pc = "test"
    /\ pc' = "replace"
    /\ UNCHANGED <<content, session, rf, wf, stdout, exc, wopens, orig, runs, log>>
    /\ UNCHANGED varsChunlian

\* line 26: if old in content
TestFound ==
    /\ pc = "test"
    /\ pc' = IF Contains(content, old) THEN "replace" ELSE "print_nf"
    /\ UNCHANGED <<content, session, rf, wf, stdout, exc, wopens, orig, runs, log>>
    /\ UNCHANGED varsChunlian

\* variant: the result of replace is discarded (str is immutable)
ReplaceContentSkipped ==
    /\ pc = "replace"
    /\ pc' = "open_w"
    /\ UNCHANGED <<content, session, rf, wf, stdout, exc, wopens, orig, runs, log>>
    /\ UNCHANGED varsChunlian

\* line 27: content = content.replace(old, new)
ReplaceContent ==
    /\ pc = "replace"
    /\ content' = StrReplace(content, old, new)
    /\ pc' = "open_w"
    /\ UNCHANGED <<session, rf, wf, stdout, exc, wopens, orig, runs, log>>
    /\ UNCHANGED varsChunlian

\* line 28: open('src/session.ts', 'w', encoding='utf-8'), which truncates
OpenWrite ==
    /\ pc = "open_w"
    /\ IF session.mode = "rw"
       THEN /\ session' = [session EXCEPT !.data = <<>>]
            /\ wf' = "open"
            /\ wopens' = wopens + 1
            /\ pc' = "write"
            /\ exc' = exc
       ELSE /\ UNCHANGED <<session, wf, wopens>>
            /\ pc' = "fault"
            /\ exc' = "PermissionError"
    /\ UNCHANGED <<content, rf, stdout, orig, runs, log>>
    /\ UNCHANGED varsChunlian

\* line 29: f.write(content)
WriteAll ==
    /\ pc = "write"
    /\ session' = [session EXCEPT !.data = content]
    /\ pc' = "close_w"
    /\ UNCHANGED <<content, rf, wf, stdout, exc, wopens, orig, runs, log>>
    /\ UNCHANGED varsChunlian

\* lines 28-29: the with block ends and closes f
CloseWrite ==
    /\ pc = "close_w"
    /\ wf' = "closed"
    /\ pc' = "print_ok"
    /\ UNCHANGED <<content, session, rf, stdout, exc, wopens, orig, runs, log>>
    /\ UNCHANGED varsChunlian

\* line 30: print('OK')
PrintOK ==
    /\ pc = "print_ok"
    /\ stdout' = Append(stdout, "OK")
    /\ pc' = "done"
    /\ UNCHANGED <<content, session, rf, wf, exc, wopens, orig, runs, log>>
    /\ UNCHANGED varsChunlian

\* variant: the not-found branch also exits with an error status
PrintNotFoundAndExit ==
    /\ pc = "print_nf"
    /\ stdout' = Append(stdout, "NOT FOUND")
    /\ exc' = "SystemExit"
    /\ pc' = "fault"
    /\ UNCHANGED <<content, session, rf, wf, wopens, orig, runs, log>>
    /\ UNCHANGED varsChunlian

\* line 32: print('NOT FOUND')
PrintNotFound ==
    /\ pc = "print_nf"
    /\ stdout' = Append(stdout, "NOT FOUND")
    /\ pc' = "done"
    /\ UNCHANGED <<content, session, rf, wf, exc, wopens, orig, runs, log>>
    /\ UNCHANGED varsChunlian

\* the script is started again on the file the previous run left
RunAgain ==
    /\ pc = "done"
    /\ runs < MaxRuns
    /\ log' = Append(log, [before |-> orig, after |-> session.data, out |-> stdout])
    /\ runs' = runs + 1
    /\ orig' = session.data
    /\ pc' = "open_r"
    /\ content' = <<>>
    /\ rf' = "none"
    /\ wf' = "none"
    /\ stdout' = <<>>
    /\ wopens' = 0
    /\ UNCHANGED <<session, exc>>
    /\ UNCHANGED varsChunlian

NextWelcome ==
    \/ OpenRead
    \/ ReadAll
    \/ CloseRead
    \/ TestFound
    \/ ReplaceContent
    \/ OpenWrite
    \/ WriteAll
    \/ CloseWrite
    \/ PrintOK
    \/ PrintNotFound
    \/ RunAgain

(***************************************************************************)
(* create_chunlian.py: the document.                                       *)
(*                                                                         *)
(* Lengths are in hundredths of an inch (Inches(11.69) is 1169), font      *)
(* sizes in points (Pt(28) is 28).  A text is a sequence of characters;    *)
(* a Chinese character is written as its pinyin syllable:                  *)
(*   2025 xin chun dui lian                       the title, line 23       *)
(*   shang lian : chun hui da di qian shan xiu    line 35                  *)
(*   xia lian : ri nuan shen zhou wan wu rong     line 44                  *)
(*   heng pi : wan xiang geng xin                 line 53                  *)
(*   shang lian : rui xue ying chun pu jin xiu    line 69                  *)
(*   xia lian : hong mei bao sui zhan hong tu     line 78                  *)
(*   heng pi : xin chun da ji                     line 87                  *)
(* and the fonts by their names SimSun (line 25), KaiTi (line 37) and      *)
(* SimHei (line 55).  An attribute the script never sets keeps python-docx *)
(* 's None: "none" for a name, <<>> for a colour.                          *)
(***************************************************************************)
\* the file doc.save writes (line 95), and any other file of the directory
TARGET == "chunlian.docx"
Neighbour == "notes.txt"
FileNames == {TARGET, Neighbour}

\* '=' * 50 (line 64)
Repeat(c, n) == [i \in 1..n |-> c]

\* a run as add_run(text) leaves it
PlainRun(text) ==
    [text |-> text, size |-> 0, name |-> "none", eastAsia |-> "none",
     rgb |-> <<>>, bold |-> "none"]

\* a run after font.size, font.name, font.color.rgb and rFonts eastAsia are set
StyledRun(text, size, font, rgb) ==
    [PlainRun(text) EXCEPT !.size = size, !.name = font, !.eastAsia = font,
                           !.rgb = rgb]

\* doc.add_paragraph()
EmptyParagraph == [alignment |-> "none", runs |-> <<>>]

\* a paragraph with alignment = WD_ALIGN_PARAGRAPH.CENTER and one run
Centered(run) == [alignment |-> "CENTER", runs |-> <<run>>]

\* lines 21-27
TitleParagraph ==
    Centered(StyledRun(<<"2025", "xin", "chun", "dui", "lian">>,
                       28, "SimSun", <<200, 0, 0>>))

\* lines 33-39
Shanglian ==
    Centered(StyledRun(<<"shang", "lian", ":", "chun", "hui", "da", "di",
                         "qian", "shan", "xiu">>, 24, "KaiTi", <<180, 0, 0>>))

\* lines 42-48
Xialian ==
    Centered(StyledRun(<<"xia", "lian", ":", "ri", "nuan", "shen", "zhou",
                         "wan", "wu", "rong">>, 24, "KaiTi", <<180, 0, 0>>))

\* lines 51-58
Hengpi ==
    Centered([StyledRun(<<"heng", "pi", ":", "wan", "xiang", "geng", "xin">>,
                        26, "SimHei", <<220, 0, 0>>) EXCEPT !.bold = "true"])

\* line 64: the run gets a size and nothing else; the paragraph no alignment
Separator ==
    [alignment |-> "none",
     runs |-> << [PlainRun(Repeat("=", 50)) EXCEPT !.size = 12] >>]

\* lines 67-73
Shanglian2 ==
    Centered(StyledRun(<<"shang", "lian", ":", "rui", "xue", "ying", "chun",
                         "pu", "jin", "xiu">>, 24, "KaiTi", <<180, 0, 0>>))

\* variant: the second xialian with another font size
Xialian2Small ==
    Centered(StyledRun(<<"xia", "lian", ":", "hong", "mei", "bao", "sui",
                         "zhan", "hong", "tu">>, 22, "KaiTi", <<180, 0, 0>>))

\* lines 76-82
Xialian2 ==
    Centered(StyledRun(<<"xia", "lian", ":", "hong", "mei", "bao", "sui",
                         "zhan", "hong", "tu">>, 24, "KaiTi", <<180, 0, 0>>))

\* lines 85-92
Hengpi2 ==
    Centered([StyledRun(<<"heng", "pi", ":", "xin", "chun", "da", "ji">>,
                        26, "SimHei", <<220, 0, 0>>) EXCEPT !.bold = "true"])

\* lines 10-18: A4 portrait and the margins
PageSetupOf(section) ==
    [section EXCEPT !.page_height = 1169, !.page_width = 827,
                    !.top_margin = 50, !.bottom_margin = 50,
                    !.left_margin = 75, !.right_margin = 75]

\* the section of python-docx's default template: Letter, 1 in / 1.25 in margins
DefaultSection ==
    [page_height |-> 1100, page_width |-> 850, top_margin |-> 100,
     bottom_margin |-> 100, left_margin |-> 125, right_margin |-> 125]

\* line 96
SuccessMessage == "chunlian document generated: chunlian.docx"

(***************************************************************************)
(* create_chunlian.py: the initial states.                                 *)
(***************************************************************************)
\* a file some earlier program left in the directory
StaleFile ==
    [exists |-> TRUE, section |-> DefaultSection,
     paragraphs |-> << [alignment |-> "none", runs |-> <<PlainRun(<<"stale">>)>>] >>]

\* a file opened for writing and not written: what a failed save can leave
TruncatedFile == [exists |-> TRUE, section |-> NoSection, paragraphs |-> <<>>]

Environments ==
    [argv : { <<>>, <<"--out", "x.docx">> },
     environ : { <<>>, <<"OUT=x.docx">> },
     docx_installed : BOOLEAN,
     cwd_writable : BOOLEAN,
     cwd0 : [FileNames -> {AbsentFile, StaleFile}]]

InitChunlian ==
    /\ pc1 = "import"
    /\ doc = NoDoc
    /\ env \in Environments
    /\ cwd = env.cwd0
    /\ stdout1 = <<>>
    /\ exc1 = "none"
    /\ saves = 0

(***************************************************************************)
(* create_chunlian.py: one action per statement group.                     *)
(***************************************************************************)
\* lines 1-4: the imports; python-docx may not be installed
Imports ==
    /\ pc1 = "import"
    /\ IF env.docx_installed
       THEN pc1' = "new_doc" /\ exc1' = exc1
       ELSE pc1' = "fault" /\ exc1' = "ModuleNotFoundError"
    /\ UNCHANGED <<doc, cwd, stdout1, saves, env>>
    /\ UNCHANGED varsWelcome

\* line 7: doc = Document()
NewDocument ==
    /\ pc1 = "new_doc"
    /\ doc' = [created |-> TRUE, section |-> DefaultSection, paragraphs |-> <<>>]
    /\ pc1' = "page"
    /\ UNCHANGED <<cwd, stdout1, exc1, saves, env>>
    /\ UNCHANGED varsWelcome

\* lines 10-18
PageSetup ==
    /\ pc1 = "page"
    /\ doc' = [doc EXCEPT !.section = PageSetupOf(@)]
    /\ pc1' = "title"
    /\ UNCHANGED <<cwd, stdout1, exc1, saves, env>>
    /\ UNCHANGED varsWelcome

\* doc.add_paragraph() and what the script sets on the paragraph and its run
AddParagraph(at, p, next) ==
    /\ pc1 = at
    /\ doc' = [doc EXCEPT !.paragraphs = Append(@, p)]
    /\ pc1' = next
    /\ UNCHANGED <<cwd, stdout1, exc1, saves, env>>
    /\ UNCHANGED varsWelcome

AddTitle == AddParagraph("title", TitleParagraph, "blank1")          \* 21-27
AddBlank1 == AddParagraph("blank1", EmptyParagraph, "shanglian")     \* 30
AddShanglian == AddParagraph("shanglian", Shanglian, "xialian")      \* 33-39
AddXialian == AddParagraph("xialian", Xialian, "hengpi")             \* 42-48
AddHengpi == AddParagraph("hengpi", Hengpi, "blank2")                \* 51-58
AddBlank2 == AddParagraph("blank2", EmptyParagraph, "separator")     \* 61
AddSeparator == AddParagraph("separator", Separator, "shanglian2")   \* 64
AddShanglian2 == AddParagraph("shanglian2", Shanglian2, "xialian2")  \* 67-73
\* variant of AddXialian2 with the other font size
AddXialian2CopyPaste == AddParagraph("xialian2", Xialian2Small, "hengpi2")
AddXialian2 == AddParagraph("xialian2", Xialian2, "hengpi2")         \* 76-82
AddHengpi2 == AddParagraph("hengpi2", Hengpi2, "save")               \* 85-92

\* what doc.save writes: the document as assembled
Saved(d) == [exists |-> TRUE, section |-> d.section, paragraphs |-> d.paragraphs]

\* variant: doc.save is never called
SaveNothing ==
    /\ pc1 = "save"
    /\ pc1' = "print"
    /\ UNCHANGED <<doc, cwd, stdout1, exc1, saves, env>>
    /\ UNCHANGED varsWelcome

\* variant: the save keeps the paragraphs of a file that is already there
SaveAppending ==
    /\ pc1 = "save"
    /\ IF env.cwd_writable
       THEN /\ cwd' = [cwd EXCEPT ![TARGET] =
                          [Saved(doc) EXCEPT !.paragraphs = cwd[TARGET].paragraphs \o @]]
            /\ saves' = saves + 1
            /\ pc1' = "print"
            /\ exc1' = exc1
       ELSE /\ UNCHANGED <<cwd, saves>>
            /\ pc1' = "fault"
            /\ exc1' = "PermissionError"
    /\ UNCHANGED <<doc, stdout1, env>>
    /\ UNCHANGED varsWelcome

\* line 95: doc.save creates or overwrites the file; it fails when the
\* directory cannot be written
Save ==
    /\ pc1 = "save"
    /\ IF env.cwd_writable
       THEN /\ cwd' = [cwd EXCEPT ![TARGET] = Saved(doc)]
            /\ saves' = saves + 1
            /\ pc1' = "print"
            /\ exc1' = exc1
       ELSE /\ UNCHANGED <<cwd, saves>>
            /\ pc1' = "fault"
            /\ exc1' = "PermissionError"
    /\ UNCHANGED <<doc, stdout1, env>>
    /\ UNCHANGED varsWelcome

\* line 96
PrintSuccess ==
    /\ pc1 = "print"
    /\ stdout1' = Append(stdout1, SuccessMessage)
    /\ pc1' = "done"
    /\ UNCHANGED <<doc, cwd, exc1, saves, env>>
    /\ UNCHANGED varsWelcome

\* the statements of the script, in order
Statements ==
    << "import", "new_doc", "page", "title", "blank1", "shanglian", "xialian",
       "hengpi", "blank2", "separator", "shanglian2", "xialian2", "hengpi2",
       "save", "print" >>

StatementAfter(at) ==
    LET i == CHOOSE k \in 1..Len(Statements) : Statements[k] = at
    IN  IF i = Len(Statements) THEN "done" ELSE Statements[i + 1]

\* variant: the exception is caught and the script goes on
RaiseSwallowed ==
    /\ pc1 \in { Statements[k] : k \in 1..Len(Statements) }
    /\ exc1' = "Exception"
    /\ pc1' = StatementAfter(pc1)
    /\ UNCHANGED <<doc, cwd, stdout1, saves, env>>
    /\ UNCHANGED varsWelcome

\* a statement raises (the script has no try): the run ends there.  A save
\* that fails after the file was opened leaves it truncated.
Raise ==
    /\ pc1 \in { Statements[k] : k \in 1..Len(Statements) }
    /\ exc1' = "Exception"
    /\ pc1' = "fault"
    /\ \/ cwd' = cwd
       \/ /\ pc1 = "save"
          /\ env.cwd_writable
          /\ cwd' = [cwd EXCEPT ![TARGET] = TruncatedFile]
    /\ UNCHANGED <<doc, stdout1, saves, env>>
    /\ UNCHANGED varsWelcome

NextChunlian ==
    \/ Imports
    \/ NewDocument
    \/ PageSetup
    \/ AddTitle
    \/ AddBlank1
    \/ AddShanglian
    \/ AddXialian
    \/ AddHengpi
    \/ AddBlank2
    \/ AddSeparator
    \/ AddShanglian2
    \/ AddXialian2
    \/ AddHengpi2
    \/ Save
    \/ PrintSuccess
    \/ Raise

(***************************************************************************)
(* The specifications.  While one script runs the other has not started.   *)
(***************************************************************************)
IdleWelcome ==
    /\ pc = "open_r"
    /\ content = <<>>
    /\ session = [mode |-> "absent", data |-> <<>>]
    /\ rf = "none"
    /\ wf = "none"
    /\ stdout = <<>>
    /\ exc = "none"
    /\ wopens = 0
    /\ orig = <<>>
    /\ runs = 1
    /\ log = <<>>

IdleChunlian ==
    /\ pc1 = "import"
    /\ doc = NoDoc
    /\ env = [argv |-> <<>>, environ |-> <<>>, docx_installed |-> TRUE,
              cwd_writable |-> TRUE, cwd0 |-> [f \in FileNames |-> AbsentFile]]
    /\ cwd = env.cwd0
    /\ stdout1 = <<>>
    /\ exc1 = "none"
    /\ saves = 0

\* fix_welcome.py is run (up to MaxRuns times) on some src/session.ts
InitW == InitWelcome /\ IdleChunlian
SpecWelcome == InitW /\ [][NextWelcome]_vars

\* create_chunlian.py is run once in some environment
InitC == InitChunlian /\ IdleWelcome
SpecChunlian == InitC /\ [][NextChunlian]_vars

(***************************************************************************)
(* Properties of fix_welcome.py (checked under SpecWelcome).               *)
(***************************************************************************)
\* the file the current run started on contained `old`
Found == Contains(orig, old)

\* the run can open the file whenever it tries to
Accessible == session.mode = "rw" \/ (session.mode = "ro" /\ ~Found)

Running == pc \notin {"done", "fault"}

(* C1: a run on a file that contains `old` ends with the file holding the
   text with `old` replaced by `new` (written back to the same file) and with
   the success message OK printed. *)
ReplacesAndReportsSuccess ==
    (pc = "done" /\ Found) =>
        /\ session.data = StrReplace(orig, old, new)
        /\ session.data # orig
        /\ Contains(session.data, new)
        /\ stdout = <<"OK">>

ReplacedAndReported == pc = "done" /\ Found /\ runs = 1 /\ stdout = <<"OK">>

(* C2: a run on a file that does not contain `old` never opens the file for
   writing, leaves its content as it was at every step, and ends with the
   message NOT FOUND printed. *)
NotFoundLeavesFileAlone ==
    (session.mode # "absent" /\ ~Found) =>
        /\ session.data = orig
        /\ wopens = 0
        /\ wf = "none"
        /\ (pc = "done" => stdout = <<"NOT FOUND">>)

NotFoundReported ==
    pc = "done" /\ ~Found /\ orig # <<>> /\ stdout = <<"NOT FOUND">> /\ runs = 1

(* C3, as claimed: whatever the file system holds, a run ends without an
   exception, with the exit status of a successful run, having printed
   exactly one of the two status messages. *)
EveryRunEndsNormally ==
    ~Running =>
        /\ pc = "done"
        /\ exc = "none"
        /\ ExitStatus(exc) = 0
        /\ stdout \in { <<"OK">>, <<"NOT FOUND">> }

(* C3, amended: when src/session.ts exists and can be opened and read (and
   can be opened for writing if it contains `old`), the run never raises,
   always has a next step until it is done, and ends with exit status 0
   having printed exactly one status message, NOT FOUND exactly when `old`
   was not found; otherwise the I/O error of open() ends the run as an
   unhandled exception with exit status 1, nothing printed and the file
   unmodified. *)
EndsNormallyWhenAccessible ==
    /\ Accessible => (pc # "fault" /\ exc = "none")
    /\ Running => ENABLED NextWelcome
    /\ pc = "done" =>
          /\ ExitStatus(exc) = 0
          /\ stdout \in { <<"OK">>, <<"NOT FOUND">> }
          /\ (stdout = <<"NOT FOUND">>) <=> ~Found
    /\ pc = "fault" =>
          /\ ~Accessible
          /\ exc \in {"FileNotFoundError", "PermissionError"}
          /\ ExitStatus(exc) = 1
          /\ stdout = <<>>
          /\ session.data = orig

NotFoundEndsNormally ==
    /\ pc = "done" /\ runs = 1 /\ ~Found /\ Accessible
    /\ stdout = <<"NOT FOUND">> /\ ExitStatus(exc) = 0

\* the scan of the claim: an occurrence of `old` at p is replaced iff no
\* replaced occurrence starts in the Len(old) - 1 positions before p
RECURSIVE Chosen(_, _)
Chosen(s, p) ==
    /\ OccursAt(s, old, p)
    /\ \A q \in 1..(p - 1) : (p - q < Len(old)) => ~Chosen(s, q)

ChosenStarts(s) == { p \in 1..Len(s) : Chosen(s, p) }

\* what position i of the original contributes to the result
Piece(s, starts, i) ==
    IF i \in starts THEN new
    ELSE IF \E p \in starts : p < i /\ i < p + Len(old) THEN <<>>
    ELSE <<s[i]>>

Expected(s) ==
    LET starts == ChosenStarts(s)
    IN  Flatten([i \in 1..Len(s) |-> Piece(s, starts, i)])

(* C7: when `old` is found, the content written back is the original with
   every non-overlapping occurrence of `old`, scanning left to right,
   replaced by `new` and every token outside those occurrences kept in
   order. *)
ReplacesEveryOccurrence ==
    (pc \in {"close_w", "print_ok", "done"} /\ Found) =>
        session.data = Expected(orig)

SeveralOccurrencesReplaced ==
    pc = "done" /\ runs = 1 /\ Cardinality(ChosenStarts(orig)) >= 2

(* C8: after a run that reports OK the file no longer contains `old`, and a
   second run prints NOT FOUND and leaves the file as the first run left
   it. *)
Idempotent ==
    /\ (pc = "done" /\ stdout = <<"OK">>) => ~Contains(session.data, old)
    /\ (pc = "done" /\ runs >= 2 /\ log[runs - 1].out = <<"OK">>) =>
          /\ stdout = <<"NOT FOUND">>
          /\ session.data = log[runs - 1].after

(* C9: within a run the read handle is closed and the whole file read before
   the membership test; the file is opened for writing at most once and only
   when `old` was found; OK is printed only after the write is complete and
   the write handle closed; a run prints at most one message, and exactly
   one when it completes. *)
StepsInOrder ==
    /\ pc \in {"test", "replace", "open_w", "write", "close_w", "print_ok",
               "print_nf", "done"} => rf = "closed"
    /\ pc = "test" => content = orig
    /\ wopens <= 1
    /\ (wopens = 1 \/ wf # "none") => Found
    /\ (\E i \in 1..Len(stdout) : stdout[i] = "OK") =>
          /\ wf = "closed"
          /\ session.data = content
    /\ Len(stdout) <= 1
    /\ pc = "done" => Len(stdout) = 1
    /\ Running => stdout = <<>>

WroteThenPrinted ==
    pc = "done" /\ stdout = <<"OK">> /\ wf = "closed" /\ rf = "closed" /\ wopens = 1

(***************************************************************************)
(* Properties of create_chunlian.py (checked under SpecChunlian).          *)
(***************************************************************************)
Range(f) == { f[i] : i \in DOMAIN f }

(* C4: when the script has run to completion, the file chunlian.docx exists
   in the working directory, is not empty, and holds the document assembled
   by the preceding statements, with at least the title paragraph and the
   three lines of each couplet. *)
ProducesDocument ==
    pc1 = "done" =>
        /\ cwd[TARGET].exists
        /\ cwd[TARGET].paragraphs # <<>>
        /\ cwd[TARGET].paragraphs = doc.paragraphs
        /\ cwd[TARGET].section = doc.section
        /\ { TitleParagraph, Shanglian, Xialian, Hengpi,
             Shanglian2, Xialian2, Hengpi2 } \subseteq Range(cwd[TARGET].paragraphs)

DocumentCreated == pc1 = "done" /\ ~env.cwd0[TARGET].exists /\ cwd[TARGET].exists

(* C5: a statement that fails ends the run there with the exception
   unhandled: once faulted the script takes no further step and has printed
   nothing, and the success message is printed only when doc.save has
   completed and no statement has failed. *)
SuccessOnlyAfterSave ==
    /\ stdout1 # <<>> =>
          /\ stdout1 = <<SuccessMessage>>
          /\ saves = 1
          /\ exc1 = "none"
          /\ cwd[TARGET].exists
          /\ cwd[TARGET].paragraphs = doc.paragraphs
    /\ exc1 # "none" => pc1 = "fault"
    /\ pc1 = "fault" =>
          /\ exc1 # "none"
          /\ stdout1 = <<>>
          /\ ~ENABLED NextChunlian

SaveFailedSilently ==
    /\ pc1 = "fault" /\ exc1 = "PermissionError"
    /\ Len(doc.paragraphs) = 10 /\ stdout1 = <<>>

\* the document the script is written to produce, whatever it is started with
ChunlianParagraphs ==
    << TitleParagraph, EmptyParagraph, Shanglian, Xialian, Hengpi,
       EmptyParagraph, Separator, Shanglian2, Xialian2, Hengpi2 >>

ChunlianDocument ==
    [exists |-> TRUE,
     section |-> [page_height |-> 1169, page_width |-> 827, top_margin |-> 50,
                  bottom_margin |-> 50, left_margin |-> 75, right_margin |-> 75],
     paragraphs |-> ChunlianParagraphs]

(* C6: the script writes one file only: every other file of the working
   directory stays as it was, doc.save completes at most once and exactly
   once in a completed run, and the file a completed run leaves is one fixed
   document, whatever the arguments, the environment variables and the
   prior content of the directory. *)
WritesOnlyTheDocument ==
    /\ \A f \in FileNames \ {TARGET} : cwd[f] = env.cwd0[f]
    /\ saves <= 1
    /\ pc1 \in {"print", "done"} => saves = 1
    /\ pc1 = "done" => cwd[TARGET] = ChunlianDocument

OverwroteStaleFile ==
    /\ pc1 = "done" /\ saves = 1
    /\ env.cwd0[TARGET] = StaleFile /\ env.cwd0[Neighbour] = StaleFile
    /\ env.argv # <<>> /\ env.environ # <<>>

\* the structure of C10, stated on the paragraphs themselves
IsBlank(p) == p.runs = <<>>
TextOf(p) == p.runs[1].text
StartsWith(p, a, b) ==
    /\ Len(p.runs) = 1
    /\ Len(TextOf(p)) > 3
    /\ SubSeq(TextOf(p), 1, 3) = <<a, b, ":">>
LineFormat(p) ==
    LET r == p.runs[1]
    IN  r.size = 24 /\ r.name = "KaiTi" /\ r.eastAsia = "KaiTi"
        /\ r.rgb = <<180, 0, 0>> /\ r.bold = "none"
HengpiFormat(p) ==
    LET r == p.runs[1]
    IN  r.size = 26 /\ r.name = "SimHei" /\ r.eastAsia = "SimHei"
        /\ r.rgb = <<220, 0, 0>> /\ r.bold = "true"
IsCouplet(ps, i) ==
    /\ StartsWith(ps[i], "shang", "lian") /\ LineFormat(ps[i])
    /\ StartsWith(ps[i + 1], "xia", "lian") /\ LineFormat(ps[i + 1])
    /\ StartsWith(ps[i + 2], "heng", "pi") /\ HengpiFormat(ps[i + 2])
IsSeparator(p) ==
    /\ Len(p.runs) = 1
    /\ Len(TextOf(p)) = 50
    /\ \A k \in 1..50 : TextOf(p)[k] = "="
FixedStructure(ps) ==
    /\ Len(ps) = 10
    /\ ps[1] = TitleParagraph
    /\ IsBlank(ps[2])
    /\ IsCouplet(ps, 3)
    /\ IsBlank(ps[6])
    /\ IsSeparator(ps[7])
    /\ IsCouplet(ps, 8)
Assembled == pc1 \in {"save", "print", "done"}

(* C10, as claimed: the assembled document is title, blank, couplet 1, blank,
   separator of 50 '=', couplet 2; each couplet is shanglian, xialian, hengpi
   with the same formatting per role; and every non-blank paragraph is
   centre-aligned. *)
StructureAllCentred ==
    Assembled =>
        /\ FixedStructure(doc.paragraphs)
        /\ \A i \in 1..Len(doc.paragraphs) :
              ~IsBlank(doc.paragraphs[i]) => doc.paragraphs[i].alignment = "CENTER"

(* C10, amended: the same structure and formatting; the title and the six
   couplet lines are centre-aligned, while the separator line, like the two
   blank paragraphs, has no alignment set (it keeps the style's default). *)
StructureCentredButSeparator ==
    Assembled =>
        /\ FixedStructure(doc.paragraphs)
        /\ \A i \in {1, 3, 4, 5, 8, 9, 10} : doc.paragraphs[i].alignment = "CENTER"
        /\ \A i \in {2, 6, 7} : doc.paragraphs[i].alignment = "none"

TenParagraphsAssembled ==
    /\ pc1 = "done" /\ Len(doc.paragraphs) = 10
    /\ IsSeparator(doc.paragraphs[7]) /\ IsCouplet(doc.paragraphs, 8)

====
